---- MODULE Spec2Model ----
(***************************************************************************)
(* Model of github.com/quenbyako/errors: the three error variants          *)
(* (fundamental, withStack, withMessage), the constructors that build      *)
(* chains of them, the chain walkers Stack and Cause, stack capture        *)
(* (callers) and the Remap dispatcher with its rule constructors.          *)
(*                                                                         *)
(* Error values live in a heap (a sequence of objects); an error is a      *)
(* reference into it, 0 being the nil error.  Objects are immutable and    *)
(* the heap only grows, so reference equality is Go's pointer equality.    *)
(* Strings are sequences of one-character tokens, so that concatenation    *)
(* (msg + ": " + cause.Error()) is sequence concatenation.                 *)
(***************************************************************************)
EXTENDS Integers, Sequences, FiniteSets, TLC

VARIABLES heap, ncap, ncalls, userDepth, last

vars == <<heap, ncap, ncalls, userDepth, last>>

\* ---------------------------------------------------------------- bounds

\* Calls of the constructors in one run (the package-level sentinels aside).
MaxCalls == 2
\* Remap is called after at most this many constructor calls.
MaxRemapCalls == 1
\* The deepest user call chain from which the library is entered.
MaxUserDepth == 33

\* ------------------------------------------------------- program constants

\* const defaultSkip uint = 2
defaultSkip == 2
\* const depth = 32
depth == 32

\* ---------------------------------------------------------------- values

Nil == 0

\* A nil StackTrace (what Stack returns when the chain carries none).
NoStack == [id |-> 0, frames |-> <<>>]

\* msg + ": " + cause.Error()
Sep == <<":", " ">>

Msgs == {<<"a">>, <<"b">>}

\* Calls of the formatting entry points: a format and its arguments.
FmtCalls ==
    { [format |-> <<"%s">>, args |-> << <<"a">> >>],
      [format |-> <<"b", "%s">>, args |-> <<>>] }

Obj(kind, msg, cause, stack) ==
    [kind |-> kind, msg |-> msg, cause |-> cause, stack |-> stack]

\* Package-level sentinel errors, built before any modelled call: io.EOF, a
\* plain error (a text, no Unwrap, no stack), and one made by New during
\* package initialisation (see Statics below).
ErrEOF == 1
ErrBase == 2

Refs(h) == 0..Len(h)
NonNil(h) == 1..Len(h)

\* One frame of a call stack: a library function (lvl 0) or the user's
\* function at call level lvl (level d is the caller of the entry point).
F(fn) == [fn |-> fn, lvl |-> 0]
UserStack(d) == [i \in 1..d |-> [fn |-> "user", lvl |-> d - i + 1]]

Min(a, b) == IF a < b THEN a ELSE b
Max(a, b) == IF a > b THEN a ELSE b

\* ------------------------------------------------------------ fmt.Sprintf

RECURSIVE ExtraArgs(_)
ExtraArgs(args) ==
    IF args = <<>> THEN <<>>
    ELSE <<"string=">> \o Head(args)
         \o (IF Tail(args) = <<>> THEN <<>> ELSE <<",", " ">>)
         \o ExtraArgs(Tail(args))

\* fmt.Sprintf over a format whose only verb is %s: each verb takes the next
\* argument, a verb without one prints %!s(MISSING), arguments left over
\* print %!(EXTRA ...).
RECURSIVE Sprintf(_, _)
Sprintf(format, args) ==
    IF format = <<>>
    THEN IF args = <<>> THEN <<>>
         ELSE <<"%!(EXTRA ">> \o ExtraArgs(args) \o <<")">>
    ELSE IF Head(format) = "%s"
         THEN IF args = <<>>
              THEN <<"%!s(MISSING)">> \o Sprintf(Tail(format), args)
              ELSE Head(args) \o Sprintf(Tail(format), Tail(args))
         ELSE <<Head(format)>> \o Sprintf(Tail(format), args)

\* ------------------------------------------------------------- stack.go

\* callers: runtime.Callers(defaultSkip+extraSkip, pcs[:depth]) on the stack
\* stk whose top frame is callers itself; c is the number of captures so far.
callers(c, extraSkip, stk) ==
    LET full == <<F("runtime.Callers")>> \o stk
        skip == defaultSkip + extraSkip
        n    == Min(depth, Max(0, Len(full) - skip))
    IN  [id |-> c + 1, frames |-> SubSeq(full, skip + 1, skip + n)]

\* ------------------------------------------------------- methods of errors

\* The dynamic type of an error value (reflect.TypeOf).
TypeOf(h, e) == IF e = Nil THEN "nil" ELSE h[e].kind

\* Whether the error has an Unwrap() error method.
HasUnwrap(h, e) == h[e].kind \in {"withStack", "withMessage", "wrapper"}

\* Whether the error has a stackTrace() StackTrace method.
HasStackTrace(h, e) == h[e].kind \in {"fundamental", "withStack"}

\* err.Unwrap()
UnwrapMethod(h, e) == h[e].cause

\* err.stackTrace()
stackTrace(h, e) == h[e].stack

\* errors.Unwrap: the result of err's Unwrap method, nil if it has none.
Unwrap(h, e) == IF e # Nil /\ HasUnwrap(h, e) THEN UnwrapMethod(h, e) ELSE Nil

\* A variant of Error() that puts the cause's text before the message.
RECURSIVE ErrorOfCauseFirst(_, _)
ErrorOfCauseFirst(h, e) ==
    CASE h[e].kind = "fundamental" -> h[e].msg
      [] h[e].kind = "withStack"   -> ErrorOfCauseFirst(h, h[e].cause)
      [] h[e].kind = "withMessage" ->
            ErrorOfCauseFirst(h, h[e].cause) \o Sep \o h[e].msg
      [] OTHER                     -> h[e].msg

\* err.Error()
RECURSIVE ErrorOf(_, _)
ErrorOf(h, e) ==
    CASE h[e].kind = "fundamental" -> h[e].msg
      [] h[e].kind = "withStack"   -> ErrorOf(h, h[e].cause)
      [] h[e].kind = "withMessage" -> h[e].msg \o Sep \o ErrorOf(h, h[e].cause)
      [] OTHER                     -> h[e].msg

\* --------------------------------------------------------- chain walkers

\* A variant of Stack that prefers the stack found deeper in the chain.
RECURSIVE StackDeepest(_, _)
StackDeepest(h, e) ==
    IF e = Nil THEN NoStack
    ELSE LET below == StackDeepest(h, Unwrap(h, e))
         IN  IF below # NoStack THEN below
             ELSE IF HasStackTrace(h, e) THEN stackTrace(h, e)
             ELSE NoStack

RECURSIVE Stack(_, _)
Stack(h, e) ==
    IF e = Nil THEN NoStack
    ELSE IF HasStackTrace(h, e) THEN stackTrace(h, e)
    ELSE Stack(h, Unwrap(h, e))

\* A variant of Cause that unwraps once instead of looping.
CauseOneStep(h, e) ==
    IF e = Nil THEN e
    ELSE IF ~HasUnwrap(h, e) THEN e
    ELSE IF UnwrapMethod(h, e) = Nil THEN e
    ELSE UnwrapMethod(h, e)

RECURSIVE Cause(_, _)
Cause(h, e) ==
    IF e = Nil THEN e
    ELSE IF ~HasUnwrap(h, e) THEN e
    ELSE IF UnwrapMethod(h, e) = Nil THEN e
    ELSE Cause(h, UnwrapMethod(h, e))

\* ----------------------------------------------------------- constructors
\* Each returns the heap and capture count after the call and the error
\* returned.  stk is the call stack on entry (the caller's frame on top).

Res(h, c, ret) == [heap |-> h, ncap |-> c, ret |-> ret]

newFundamental(h, c, text, extraSkip, stk) ==
    LET s == callers(c, 1 + extraSkip, <<F("callers"), F("newFundamental")>> \o stk)
    IN  Res(Append(h, Obj("fundamental", text, Nil, s)), c + 1, Len(h) + 1)

\* A variant of wStack without the nil check.
wStackNoNilCheck(h, c, err, extraSkip, stk) ==
    LET s == callers(c, 1 + extraSkip, <<F("callers"), F("wStack")>> \o stk)
    IN  Res(Append(h, Obj("withStack", <<>>, err, s)), c + 1, Len(h) + 1)

\* A variant of wStack that, like wrap, captures only when the chain has no
\* stack.
wStackDedup(h, c, err, extraSkip, stk) ==
    IF err = Nil THEN Res(h, c, Nil)
    ELSE IF Stack(h, err) # NoStack THEN Res(h, c, err)
    ELSE LET s == callers(c, 1 + extraSkip, <<F("callers"), F("wStack")>> \o stk)
         IN  Res(Append(h, Obj("withStack", <<>>, err, s)), c + 1, Len(h) + 1)

wStack(h, c, err, extraSkip, stk) ==
    IF err = Nil THEN Res(h, c, Nil)
    ELSE LET s == callers(c, 1 + extraSkip, <<F("callers"), F("wStack")>> \o stk)
         IN  Res(Append(h, Obj("withStack", <<>>, err, s)), c + 1, Len(h) + 1)

wMessage(h, c, err, message) ==
    IF err = Nil THEN Res(h, c, Nil)
    ELSE Res(Append(h, Obj("withMessage", message, err, NoStack)), c, Len(h) + 1)

\* A variant of wrap that captures a stack whatever the chain holds.
wrapAlways(h, c, err, message, extraSkip, stk) ==
    IF err = Nil THEN Res(h, c, Nil)
    ELSE LET h1 == Append(h, Obj("withMessage", message, err, NoStack))
             e1 == Len(h) + 1
             s  == callers(c, 1 + extraSkip, <<F("callers"), F("wrap")>> \o stk)
         IN  Res(Append(h1, Obj("withStack", <<>>, e1, s)), c + 1, e1 + 1)

\* A variant of wrap that never captures a stack.
wrapNever(h, c, err, message, extraSkip, stk) ==
    IF err = Nil THEN Res(h, c, Nil)
    ELSE Res(Append(h, Obj("withMessage", message, err, NoStack)), c, Len(h) + 1)

\* A variant of wrap without the nil check.
wrapNoNilCheck(h, c, err, message, extraSkip, stk) ==
    LET h1 == Append(h, Obj("withMessage", message, err, NoStack))
        e1 == Len(h) + 1
    IN  IF Stack(h1, e1) # NoStack THEN Res(h1, c, e1)
        ELSE LET s == callers(c, 1 + extraSkip, <<F("callers"), F("wrap")>> \o stk)
             IN  Res(Append(h1, Obj("withStack", <<>>, e1, s)), c + 1, e1 + 1)

wrap(h, c, err, message, extraSkip, stk) ==
    IF err = Nil THEN Res(h, c, Nil)
    ELSE LET h1 == Append(h, Obj("withMessage", message, err, NoStack))
             e1 == Len(h) + 1
         IN  IF Stack(h1, e1) # NoStack THEN Res(h1, c, e1)
             ELSE LET s == callers(c, 1 + extraSkip, <<F("callers"), F("wrap")>> \o stk)
                  IN  Res(Append(h1, Obj("withStack", <<>>, e1, s)), c + 1, e1 + 1)

\* ---------------------------------------------------------------- remapping
\* An ErrConverter is a record: ConstConverter(err) returns err whatever it
\* is given; the caller's own converter modelled here returns its argument.

ConstConverter(err) == [kind |-> "const", to |-> err]
SameConverter == [kind |-> "same", to |-> Nil]

\* converter(err)
Convert(conv, err) == IF conv.kind = "const" THEN conv.to ELSE err

\* An ErrRemapperFunc is a record of what its closure captured.
Rule(kind, e, t, conv, format, args) ==
    [kind |-> kind, e |-> e, t |-> t, conv |-> conv, format |-> format,
     args |-> args]

ValueRemapperFunc(comparedErr, converter) ==
    Rule("value", comparedErr, "", converter, <<>>, <<>>)
ValueRemapper(comparedErr, convertTo) ==
    ValueRemapperFunc(comparedErr, ConstConverter(convertTo))

\* t := reflect.TypeOf(T) is taken when the rule is built.
TypeRemapperLegacyF(h, T, converter) ==
    Rule("type", Nil, TypeOf(h, T), converter, <<>>, <<>>)
TypeRemapperLegacy(h, T, convertTo) ==
    TypeRemapperLegacyF(h, T, ConstConverter(convertTo))

\* The generic rule, instantiated at the concrete error type t.
TypeRemapperFunc(t, converter) == Rule("typeG", Nil, t, converter, <<>>, <<>>)
TypeRemapper(t, convertTo) == TypeRemapperFunc(t, ConstConverter(convertTo))

ErrConstantWrap(message, args) ==
    Rule("constwrap", Nil, "", SameConverter, message, args)

RuleRes(h, c, ret, ok) == [heap |-> h, ncap |-> c, ret |-> ret, ok |-> ok]

\* A variant of the rules whose terminal fallback annotates the message only.
ApplyRuleMessageOnly(h, c, rule, err, stk) ==
    CASE rule.kind = "value" ->
            IF err = rule.e THEN RuleRes(h, c, Convert(rule.conv, err), TRUE)
            ELSE RuleRes(h, c, Nil, FALSE)
      [] rule.kind = "type" ->
            IF TypeOf(h, err) = rule.t
            THEN RuleRes(h, c, Convert(rule.conv, err), TRUE)
            ELSE RuleRes(h, c, Nil, FALSE)
      [] rule.kind = "typeG" ->
            IF err # Nil /\ TypeOf(h, err) = rule.t
            THEN RuleRes(h, c, Convert(rule.conv, err), TRUE)
            ELSE RuleRes(h, c, Nil, FALSE)
      [] OTHER ->
            LET w == wMessage(h, c, err, Sprintf(rule.format, rule.args))
            IN  RuleRes(w.heap, w.ncap, w.ret, TRUE)

\* remapper(err): the closure each constructor returns, run on the stack stk
\* of its caller.
ApplyRule(h, c, rule, err, stk) ==
    CASE rule.kind = "value" ->
            IF err = rule.e THEN RuleRes(h, c, Convert(rule.conv, err), TRUE)
            ELSE RuleRes(h, c, Nil, FALSE)
      [] rule.kind = "type" ->
            IF TypeOf(h, err) = rule.t
            THEN RuleRes(h, c, Convert(rule.conv, err), TRUE)
            ELSE RuleRes(h, c, Nil, FALSE)
      [] rule.kind = "typeG" ->
            IF err # Nil /\ TypeOf(h, err) = rule.t
            THEN RuleRes(h, c, Convert(rule.conv, err), TRUE)
            ELSE RuleRes(h, c, Nil, FALSE)
      [] OTHER ->
            LET w == wrap(h, c, err, Sprintf(rule.format, rule.args), 1,
                          <<F("ErrConstantWrap.func1")>> \o stk)
            IN  RuleRes(w.heap, w.ncap, w.ret, TRUE)

\* The loop of Remap from rule i on; invoked counts the rules it has run.
RECURSIVE RemapFrom(_, _, _, _, _, _)
RemapFrom(h, c, err, remappers, i, stk) ==
    IF i > Len(remappers)
    THEN [heap |-> h, ncap |-> c, ret |-> err, invoked |-> Len(remappers)]
    ELSE LET r == ApplyRule(h, c, remappers[i], err, stk)
         IN  IF r.ok
             THEN [heap |-> r.heap, ncap |-> r.ncap, ret |-> r.ret, invoked |-> i]
             ELSE RemapFrom(r.heap, r.ncap, err, remappers, i + 1, stk)

\* A variant of Remap that runs every rule and keeps the last match.
RECURSIVE RemapLastFrom(_, _, _, _, _, _, _)
RemapLastFrom(h, c, err, remappers, i, stk, acc) ==
    IF i > Len(remappers) THEN acc
    ELSE LET r == ApplyRule(h, c, remappers[i], err, stk)
         IN  RemapLastFrom(r.heap, r.ncap, err, remappers, i + 1, stk,
                           IF r.ok
                           THEN [heap |-> r.heap, ncap |-> r.ncap, ret |-> r.ret,
                                 invoked |-> i]
                           ELSE [acc EXCEPT !.heap = r.heap, !.ncap = r.ncap])

RemapLastMatch(h, c, err, remappers, stk) ==
    RemapLastFrom(h, c, err, remappers, 1, <<F("Remap")>> \o stk,
                  [heap |-> h, ncap |-> c, ret |-> err,
                   invoked |-> Len(remappers)])

Remap(h, c, err, remappers, stk) ==
    RemapFrom(h, c, err, remappers, 1, <<F("Remap")>> \o stk)

\* The rule lists the caller passes: a type rule built from the sample T and
\* mapping to io.EOF, an identity rule for the sentinel e mapping to ErrBase,
\* one handing the matched error to the caller's converter, the generic type
\* rule and the terminal fallback, alone and in the orders that let one rule
\* shadow another.
RuleLists(h) ==
    LET tys == { TypeRemapperLegacy(h, T, ErrEOF) : T \in Refs(h) }
        vas == { ValueRemapper(e, ErrBase) : e \in Refs(h) }
        vss == { ValueRemapperFunc(e, SameConverter) : e \in Refs(h) }
        tgs == { TypeRemapper(TypeOf(h, G), ErrEOF) : G \in NonNil(h) }
        cws == { ErrConstantWrap(f.format, f.args) : f \in FmtCalls }
    IN  { <<>> }
        \cup { <<r>> : r \in tys \cup vas \cup vss \cup tgs \cup cws }
        \cup { <<ty, va>> : ty \in tys, va \in vas }
        \cup { <<va, ty>> : ty \in tys, va \in vas }
        \cup { <<ty, va, cw>> : ty \in tys, va \in vas, cw \in cws }
        \cup { <<cw, va>> : va \in vas, cw \in cws }
        \cup { <<tg, cw>> : tg \in tgs, cw \in cws }

\* ------------------------------------------------------------- formatting
\* Text is a sequence of tokens; "\n", "\t", "\"" and "\\" are the newline,
\* the tab, the double quote and the backslash.

\* The messages the formatting runs draw from: one holds a double quote and
\* a backslash.
FormatMsgs == {<<"a">>, <<"\"", "\\">>}
Verbs == {"v", "s", "q"}

\* strings.Index and strings.LastIndex of a one-token separator: the
\* position of its first (last) occurrence, 0 when it does not occur.
Index(s, sep) ==
    LET at == {i \in 1..Len(s) : s[i] = sep}
    IN  IF at = {} THEN 0 ELSE CHOOSE i \in at : \A j \in at : i <= j
LastIndex(s, sep) ==
    LET at == {i \in 1..Len(s) : s[i] = sep}
    IN  IF at = {} THEN 0 ELSE CHOOSE i \in at : \A j \in at : i >= j

\* funcname: the function's name without its package path.
funcname(name) ==
    LET n1 == SubSeq(name, LastIndex(name, "/") + 1, Len(name))
    IN  SubSeq(n1, Index(n1, ".") + 1, Len(n1))

\* path.Base of a file path that does not end in a slash.
Base(file) == SubSeq(file, LastIndex(file, "/") + 1, Len(file))

\* strconv.Itoa
Itoa(n) == <<ToString(n)>>

\* strconv.Quote, as %q prints a string: the text between double quotes,
\* with the double quote, the backslash, the newline and the tab escaped.
RECURSIVE Escape(_)
Escape(s) ==
    IF s = <<>> THEN <<>>
    ELSE (CASE Head(s) = "\"" -> <<"\\", "\"">>
            [] Head(s) = "\\" -> <<"\\", "\\">>
            [] Head(s) = "\n" -> <<"\\", "n">>
            [] Head(s) = "\t" -> <<"\\", "t">>
            [] OTHER          -> <<Head(s)>>) \o Escape(Tail(s))
Quote(s) == <<"\"">> \o Escape(s) \o <<"\"">>

\* Frame.FuncInfo: the file, line and function name runtime.FuncForPC reports
\* for the frame; a frame of no known function reports unknown.
unknown == <<"unknown">>
FuncInfo(f) ==
    IF f.fn = "" THEN [file |-> unknown, line |-> 0, name |-> unknown]
    ELSE [file |-> <<"/", "src", "/", f.fn, ".go">>, line |-> f.lvl,
          name |-> <<"mod", "/", "pkg", ".", f.fn>>]

\* Frame.Format under verb s, d, n or v, with or without the + flag.
RECURSIVE FrameFormat(_, _, _)
FrameFormat(f, verb, plus) ==
    LET info == FuncInfo(f)
    IN  CASE verb = "s" ->
               IF plus
               THEN IF info.file = unknown THEN info.file
                    ELSE info.name \o <<"\n", "\t">> \o info.file
               ELSE Base(info.file)
          [] verb = "d" -> Itoa(info.line)
          [] verb = "n" -> funcname(info.name)
          [] verb = "v" ->
               FrameFormat(f, "s", plus) \o <<":">> \o FrameFormat(f, "d", plus)
          [] OTHER -> <<>>

\* StackTrace.formatSlice: the frames between brackets, a space apart.
RECURSIVE formatSliceFrom(_, _, _, _)
formatSliceFrom(st, i, verb, plus) ==
    IF i > Len(st) THEN <<>>
    ELSE (IF i > 1 THEN <<" ">> ELSE <<>>) \o FrameFormat(st[i], verb, plus)
         \o formatSliceFrom(st, i + 1, verb, plus)
formatSlice(st, verb, plus) ==
    <<"[">> \o formatSliceFrom(st, 1, verb, plus) \o <<"]">>

\* A variant of StackTrace.Format that ends no frame with a newline.
RECURSIVE StackTraceFormatUnbroken(_, _, _)
StackTraceFormatUnbroken(st, verb, plus) ==
    CASE verb = "v" /\ plus ->
           IF st = <<>> THEN <<>>
           ELSE FrameFormat(Head(st), verb, plus)
                \o StackTraceFormatUnbroken(Tail(st), verb, plus)
      [] verb = "v" \/ verb = "s" -> formatSlice(st, verb, plus)
      [] OTHER -> <<>>

\* StackTrace.Format (the # flag is never set here): under %+v each frame
\* and a newline, under %v and %s the slice.
RECURSIVE StackTraceFormat(_, _, _)
StackTraceFormat(st, verb, plus) ==
    CASE verb = "v" /\ plus ->
           IF st = <<>> THEN <<>>
           ELSE FrameFormat(Head(st), verb, plus) \o <<"\n">>
                \o StackTraceFormat(Tail(st), verb, plus)
      [] verb = "v" \/ verb = "s" -> formatSlice(st, verb, plus)
      [] OTHER -> <<>>

\* What fmt prints for the error e under the verb: the Format method of
\* fundamental, withStack and withMessage, and for an error type that has
\* none the text of Error(), quoted under %q.
RECURSIVE Format(_, _, _, _)
Format(h, e, verb, plus) ==
    CASE h[e].kind = "fundamental" ->
           (CASE verb = "v" /\ plus ->
                   h[e].msg \o <<"\n">>
                   \o StackTraceFormat(h[e].stack.frames, verb, plus)
              [] verb = "v" \/ verb = "s" -> h[e].msg
              [] verb = "q" -> Quote(h[e].msg)
              [] OTHER -> <<>>)
      [] h[e].kind = "withStack" ->
           (CASE verb = "v" /\ plus ->
                   Format(h, h[e].cause, "v", TRUE) \o <<"\n">>
                   \o StackTraceFormat(h[e].stack.frames, verb, plus)
              [] verb = "v" \/ verb = "s" -> ErrorOf(h, e)
              [] verb = "q" -> Quote(ErrorOf(h, e))
              [] OTHER -> <<>>)
      [] h[e].kind = "withMessage" ->
           (CASE verb = "v" /\ plus ->
                   h[e].msg \o Sep \o Format(h, h[e].cause, "v", TRUE)
              [] verb = "v" \/ verb = "s" -> ErrorOf(h, e)
              [] verb = "q" -> <<"\"">> \o ErrorOf(h, e) \o <<"\"">>
              [] OTHER -> <<>>)
      [] OTHER ->
           (CASE verb = "v" \/ verb = "s" -> ErrorOf(h, e)
              [] verb = "q" -> Quote(ErrorOf(h, e))
              [] OTHER -> <<>>)

\* ------------------------------------------------------------------ state

\* var ErrBase = errors.New("x"), run from the package's init at call level 1.
StaticsRes ==
    newFundamental(<<Obj("plain", <<"E", "O", "F">>, Nil, NoStack)>>, 0, <<"x">>, 1,
                   <<F("New")>> \o UserStack(1))
Statics == StaticsRes.heap

\* The caller is on its error path: it goes on while the call before returned
\* an error, and stops at the first nil result or once it has inspected
\* (Stack, Cause) or dispatched (Remap) what it built.
Running ==
    \/ last.op = "init"
    \/ last.op \notin {"Stack", "Cause", "Remap"} /\ last.ret # Nil

\* The record of the last call: its name and arguments, what it returned
\* (ret an error, st a StackTrace), and the heap size and capture count
\* before it.
CallRec(op, err, msg, rules, ret, st, invoked) ==
    [op |-> op, err |-> err, msg |-> msg, rules |-> rules, ret |-> ret,
     st |-> st, invoked |-> invoked, n0 |-> Len(heap), c0 |-> ncap]

Init ==
    /\ heap = Statics
    /\ ncap = StaticsRes.ncap
    /\ ncalls = 0
    /\ userDepth \in {1, MaxUserDepth}
    /\ last = [op |-> "init", err |-> Nil, msg |-> <<>>, rules |-> <<>>,
               ret |-> Nil, st |-> NoStack, invoked |-> 0,
               n0 |-> Len(Statics), c0 |-> StaticsRes.ncap]

\* A call that returns an error and may allocate.
Commit(op, err, msg, res) ==
    /\ Running
    /\ ncalls < MaxCalls
    /\ ncalls' = ncalls + 1
    /\ \E r \in {res} :
          /\ heap' = r.heap
          /\ ncap' = r.ncap
          /\ last' = CallRec(op, err, msg, <<>>, r.ret, NoStack, 0)
    /\ UNCHANGED userDepth

New(text) ==
    Commit("New", Nil, text,
           newFundamental(heap, ncap, text, 1, <<F("New")>> \o UserStack(userDepth)))

Errorf(format, args) ==
    Commit("Errorf", Nil, Sprintf(format, args),
           newFundamental(heap, ncap, Sprintf(format, args), 1,
                          <<F("Errorf")>> \o UserStack(userDepth)))

WithStack(err) ==
    Commit("WithStack", err, <<>>,
           wStack(heap, ncap, err, 1, <<F("WithStack")>> \o UserStack(userDepth)))

WithMessage(err, message) ==
    Commit("WithMessage", err, message, wMessage(heap, ncap, err, message))

WithMessagef(err, format, args) ==
    Commit("WithMessagef", err, Sprintf(format, args),
           wMessage(heap, ncap, err, Sprintf(format, args)))

Wrap(err, message) ==
    Commit("Wrap", err, message,
           wrap(heap, ncap, err, message, 1, <<F("Wrap")>> \o UserStack(userDepth)))

Wrapf(err, format, args) ==
    Commit("Wrapf", err, Sprintf(format, args),
           wrap(heap, ncap, err, Sprintf(format, args), 1,
                <<F("Wrapf")>> \o UserStack(userDepth)))

\* The caller builds an error of its own type that has an Unwrap method
\* (as fmt.Errorf with %w does); its Unwrap may yield nil.
Foreign(err) ==
    Commit("Foreign", err, <<"w">>,
           Res(Append(heap, Obj("wrapper", <<"w">>, err, NoStack)), ncap,
               Len(heap) + 1))

StackCall(err) ==
    /\ Running
    /\ last' = CallRec("Stack", err, <<>>, <<>>, Nil, Stack(heap, err), 0)
    /\ UNCHANGED <<heap, ncap, ncalls, userDepth>>

CauseCall(err) ==
    /\ Running
    /\ last' = CallRec("Cause", err, <<>>, <<>>, Cause(heap, err), NoStack, 0)
    /\ UNCHANGED <<heap, ncap, ncalls, userDepth>>

RemapCall ==
    /\ Running
    /\ ncalls <= MaxRemapCalls
    /\ \E remappers \in RuleLists(heap), err \in Refs(heap) :
          \E r \in {Remap(heap, ncap, err, remappers, UserStack(userDepth))} :
             /\ heap' = r.heap
             /\ ncap' = r.ncap
             /\ last' = CallRec("Remap", err, <<>>, remappers, r.ret, NoStack,
                                r.invoked)
    /\ UNCHANGED <<ncalls, userDepth>>

Next ==
    \/ \E t \in Msgs : New(t)
    \/ \E f \in FmtCalls : Errorf(f.format, f.args)
    \/ \E e \in Refs(heap) : WithStack(e)
    \/ \E e \in Refs(heap), m \in Msgs : WithMessage(e, m)
    \/ \E e \in Refs(heap), f \in FmtCalls : WithMessagef(e, f.format, f.args)
    \/ \E e \in Refs(heap), m \in Msgs : Wrap(e, m)
    \/ \E e \in Refs(heap), f \in FmtCalls : Wrapf(e, f.format, f.args)
    \/ \E e \in Refs(heap) : Foreign(e)
    \/ \E e \in Refs(heap) : StackCall(e)
    \/ \E e \in Refs(heap) : CauseCall(e)
    \/ RemapCall

Spec == Init /\ [][Next]_vars

\* ------------------------------------------------------- formatting runs

\* fmt.Sprintf("%"+flag+verb, err) of the error the call before returned;
\* by is that call, base the error it was given.
FormatCall(verb, plus) ==
    /\ Running
    /\ last.op # "init"
    /\ last' = CallRec("Format", last.ret, <<>>, <<>>, Nil, NoStack, 0)
                 @@ [by |-> last.op, base |-> last.err, verb |-> verb,
                     plus |-> plus, out |-> Format(heap, last.ret, verb, plus)]
    /\ UNCHANGED <<heap, ncap, ncalls, userDepth>>

NextFormat ==
    \/ \E t \in FormatMsgs : New(t)
    \/ \E f \in FmtCalls : Errorf(f.format, f.args)
    \/ \E e \in NonNil(heap) : WithStack(e)
    \/ \E e \in NonNil(heap), m \in FormatMsgs : WithMessage(e, m)
    \/ \E e \in NonNil(heap), m \in FormatMsgs : Wrap(e, m)
    \/ \E e \in NonNil(heap), f \in FmtCalls : Wrapf(e, f.format, f.args)
    \/ \E e \in NonNil(heap) : Foreign(e)
    \/ \E verb \in Verbs, plus \in BOOLEAN : FormatCall(verb, plus)

SpecFormat == Init /\ [][NextFormat]_vars

\* ------------------------------------------------- what the claims speak of

\* The heap as it was before the last call.
Pre == SubSeq(heap, 1, last.n0)

\* The chain of err: err, then what each Unwrap in turn yields, up to the
\* first error without an Unwrap method or whose Unwrap yields nil.
RECURSIVE ChainOf(_, _)
ChainOf(h, e) ==
    IF e = Nil THEN <<>>
    ELSE IF h[e].kind \in {"withStack", "withMessage", "wrapper"} /\ h[e].cause # Nil
         THEN <<e>> \o ChainOf(h, h[e].cause)
         ELSE <<e>>

\* The positions of the chain whose error owns a stack.
Bearers(h, e) ==
    { i \in 1..Len(ChainOf(h, e)) :
        h[ChainOf(h, e)[i]].kind \in {"fundamental", "withStack"} }

\* The stack of the chain's first stack-bearing error, NoStack without one.
ChainStack(h, e) ==
    IF Bearers(h, e) = {} THEN NoStack
    ELSE LET i == CHOOSE k \in Bearers(h, e) : \A j \in Bearers(h, e) : k <= j
         IN  h[ChainOf(h, e)[i]].stack

\* err with the library's annotations (withStack, withMessage) taken off.
RECURSIVE Annotated(_, _)
Annotated(h, e) ==
    IF h[e].kind \in {"withStack", "withMessage"} THEN Annotated(h, h[e].cause)
    ELSE e

WrapOps == {"Wrap", "Wrapf"}

\* C1: Wrap, Wrapf, WithMessage, WithMessagef and WithStack given a nil error
\* return nil, allocate no error value and capture no stack, whatever the
\* message.
C1_NilPropagates ==
    (last.op \in {"Wrap", "Wrapf", "WithMessage", "WithMessagef", "WithStack"}
       /\ last.err = Nil)
    => (last.ret = Nil /\ Len(heap) = last.n0 /\ ncap = last.c0)

\* A nil error was wrapped after an error had been built.
C1_Witness ==
    /\ last.op = "Wrapf"
    /\ last.err = Nil
    /\ last.ret = Nil
    /\ ncalls > 1

\* C3: for a non-nil err, Wrap(err, msg).Error() is msg + ": " + err.Error(),
\* with or without the stack annotation; and when err is itself a message
\* annotation m2 over a base, the text is msg + ": " + m2 + ": " + base.Error().
C3_WrapError ==
    (last.op \in WrapOps /\ last.err # Nil)
    => /\ ErrorOf(heap, last.ret) = last.msg \o Sep \o ErrorOf(heap, last.err)
       /\ LET inner == IF heap[last.err].kind = "withStack"
                       THEN heap[last.err].cause ELSE last.err
          IN  heap[inner].kind = "withMessage"
              => ErrorOf(heap, last.ret)
                   = last.msg \o Sep \o heap[inner].msg \o Sep
                       \o ErrorOf(heap, heap[inner].cause)

\* Wrap(Wrap(io.EOF, "b"), "a"): the inner Wrap added a stack annotation, the
\* outer one did not.
C3_Witness ==
    /\ last.op = "Wrap"
    /\ last.msg = <<"a">>
    /\ last.err # Nil
    /\ heap[last.ret].kind = "withMessage"
    /\ heap[last.err].kind = "withStack"
    /\ heap[heap[last.err].cause].kind = "withMessage"
    /\ heap[heap[last.err].cause].msg = <<"b">>
    /\ heap[heap[last.err].cause].cause = ErrEOF

C5_ExactlyOneStack ==
    (last.op \in WrapOps /\ last.err # Nil)
    => Cardinality(Bearers(heap, last.ret)) = 1

\* C5, amended: the chain of the result of Wrap/Wrapf has the stack-bearing
\* errors of the chain of err and, only when that has none, one more: at
\* least one, and exactly one when err's chain had at most one.
C5_AtLeastOneStack ==
    (last.op \in WrapOps /\ last.err # Nil)
    => Cardinality(Bearers(heap, last.ret))
         = Max(1, Cardinality(Bearers(Pre, last.err)))

\* Wrap over WithStack(ErrBase): two stacks in the chain of the result.
C5_Witness ==
    /\ last.op = "Wrap"
    /\ last.err # Nil
    /\ Cardinality(Bearers(heap, last.ret)) = 2

\* C6: for a non-nil err, WithStack returns a new stack annotation of err
\* with a stack captured by this call, whether or not the chain of err had a
\* stack, and its Error() is err.Error().
C6_WithStackAlwaysCaptures ==
    (last.op = "WithStack" /\ last.err # Nil)
    => /\ last.ret = last.n0 + 1
       /\ Len(heap) = last.n0 + 1
       /\ heap[last.ret].kind = "withStack"
       /\ heap[last.ret].cause = last.err
       /\ ncap = last.c0 + 1
       /\ heap[last.ret].stack.id = ncap
       /\ \A e \in 1..last.n0 : heap[e].stack.id < heap[last.ret].stack.id
       /\ ErrorOf(heap, last.ret) = ErrorOf(heap, last.err)

\* WithStack over an error whose chain already had a stack.
C6_Witness ==
    /\ last.op = "WithStack"
    /\ last.err # Nil
    /\ ChainStack(Pre, last.err) # NoStack
    /\ heap[last.ret].stack # ChainStack(Pre, last.err)

\* C7: Stack(err) is the stack of the first stack-bearing error of the chain
\* of err (the outermost when there are several), and nil when err is nil or
\* the chain has none.
C7_StackFirstFound ==
    last.op = "Stack"
    => /\ last.st = ChainStack(heap, last.err)
       /\ last.err = Nil => last.st = NoStack
       /\ (last.err # Nil /\ Bearers(heap, last.err) = {}) => last.st = NoStack

\* Stack of a stack annotation over an error that has a stack of its own.
C7_Witness ==
    /\ last.op = "Stack"
    /\ last.err # Nil
    /\ Cardinality(Bearers(heap, last.err)) = 2
    /\ last.st = heap[last.err].stack
    /\ last.st # ChainStack(heap, heap[last.err].cause)

\* C8: Cause(err) is the last error of the chain of err; it is nil for nil and
\* never nil otherwise; and for annotations (Wrap, WithMessage, WithStack)
\* over a base error that has no cause of its own, it is that base.
C8_CauseDeepest ==
    last.op = "Cause"
    => /\ last.err = Nil => last.ret = Nil
       /\ last.err # Nil =>
            /\ last.ret # Nil
            /\ last.ret = ChainOf(heap, last.err)[Len(ChainOf(heap, last.err))]
            /\ LET base == Annotated(heap, last.err)
               IN  (heap[base].kind \in {"plain", "fundamental"}
                      \/ heap[base].cause = Nil)
                   => last.ret = base

\* Cause(Wrap(Wrap(ErrBase, ..), ..)) is ErrBase.
C8_Witness ==
    /\ last.op = "Cause"
    /\ last.err # Nil
    /\ Len(ChainOf(heap, last.err)) = 3
    /\ heap[last.err].kind = "withMessage"
    /\ heap[heap[last.err].cause].kind = "withMessage"
    /\ last.ret = ErrBase

\* The stack a rule of Remap runs on.
RuleStack == <<F("Remap")>> \o UserStack(userDepth)

\* The rules of the last Remap call that match its error.
Matching ==
    { i \in 1..Len(last.rules) :
        ApplyRule(Pre, last.c0, last.rules[i], last.err, RuleStack).ok }

\* C9: Remap returns the replacement of the first rule of the list that
\* matches and runs no rule after it; with no matching rule it returns err.
\* So with a type rule before an identity rule, an error of the type yields
\* the type rule's replacement even when it is the sentinel, and the sentinel
\* of another type yields the identity rule's.
C9_RemapFirstMatch ==
    last.op = "Remap"
    => /\ IF Matching = {}
          THEN /\ last.ret = last.err
               /\ last.invoked = Len(last.rules)
               /\ heap = Pre
          ELSE LET m == CHOOSE k \in Matching : \A j \in Matching : k <= j
                   r == ApplyRule(Pre, last.c0, last.rules[m], last.err, RuleStack)
               IN  /\ last.invoked = m
                   /\ last.ret = r.ret
                   /\ heap = r.heap
       /\ (Len(last.rules) >= 2 /\ last.rules[1].kind = "type"
             /\ last.rules[2].kind = "value")
          => /\ TypeOf(Pre, last.err) = last.rules[1].t
                  => last.ret = Convert(last.rules[1].conv, last.err)
             /\ (last.err = last.rules[2].e
                   /\ TypeOf(Pre, last.err) # last.rules[1].t)
                  => last.ret = Convert(last.rules[2].conv, last.err)

\* An error that is of the type rule's type and is the identity rule's
\* sentinel got the type rule's replacement.
C9_Witness ==
    /\ last.op = "Remap"
    /\ Len(last.rules) = 3
    /\ last.rules[1].kind = "type"
    /\ last.rules[2].kind = "value"
    /\ last.err = ErrBase
    /\ last.rules[2].e = ErrBase
    /\ last.rules[1].t = "fundamental"
    /\ last.ret = ErrEOF
    /\ last.invoked = 1

\* C2 as claimed: Remap of nil is nil for every rule list.
C2_RemapNilIsNil ==
    (last.op = "Remap" /\ last.err = Nil) => last.ret = Nil

\* C2, amended: Remap of nil is nil, and nothing is allocated or captured,
\* when no rule is an identity rule whose sentinel is nil or a type rule built
\* from a nil sample.
C2_RemapNilNoNilRule ==
    (/\ last.op = "Remap"
     /\ last.err = Nil
     /\ \A i \in 1..Len(last.rules) :
          /\ ~(last.rules[i].kind = "value" /\ last.rules[i].e = Nil)
          /\ ~(last.rules[i].kind = "type" /\ last.rules[i].t = "nil"))
    => (last.ret = Nil /\ heap = Pre /\ ncap = last.c0)

\* Remap of nil went through a type rule and an identity rule to the
\* terminal fallback.
C2_Witness ==
    /\ last.op = "Remap"
    /\ last.err = Nil
    /\ Len(last.rules) = 3
    /\ last.rules[3].kind = "constwrap"
    /\ last.invoked = 3
    /\ last.ret = Nil

\* C10: the rule of ErrConstantWrap matches every error (no rule after it is
\* run), and for a non-nil err its replacement reads
\* Sprintf(message, args) + ": " + err.Error(), a stack being captured exactly
\* when the chain of err had none, so that the replacement has a stack.
C10_ConstantWrap ==
    last.op = "Remap"
    => /\ \A i \in 1..Len(last.rules) :
            last.rules[i].kind = "constwrap" => last.invoked <= i
       /\ (/\ last.invoked >= 1
           /\ last.invoked <= Len(last.rules)
           /\ last.rules[last.invoked].kind = "constwrap"
           /\ last.err # Nil)
          => LET rule == last.rules[last.invoked]
             IN  /\ last.ret # Nil
                 /\ ErrorOf(heap, last.ret)
                      = Sprintf(rule.format, rule.args) \o Sep
                          \o ErrorOf(heap, last.err)
                 /\ (ncap = last.c0 + 1) <=> (ChainStack(Pre, last.err) = NoStack)
                 /\ (ncap = last.c0) <=> (ChainStack(Pre, last.err) # NoStack)
                 /\ ChainStack(heap, last.ret) # NoStack

\* The fallback, last of three rules, wrapped io.EOF and captured a stack.
C10_Witness ==
    /\ last.op = "Remap"
    /\ Len(last.rules) = 3
    /\ last.invoked = 3
    /\ last.rules[3].kind = "constwrap"
    /\ last.err = ErrEOF
    /\ ncap = last.c0 + 1
    /\ heap[last.ret].kind = "withStack"

\* The stacks captured by the last call: those of the objects it allocated.
Captured ==
    {heap[e].stack : e \in {x \in (last.n0 + 1)..Len(heap) :
                               heap[x].stack.id > last.c0}}

\* What a capture at the caller of the entry point holds: the user's frames,
\* innermost first, the oldest beyond depth cut off.
CallerStack == SubSeq(UserStack(userDepth), 1, Min(depth, userDepth))

\* C11: at every capture point (New, Errorf, WithStack, Wrap, Wrapf and the
\* rule of ErrConstantWrap run by Remap) the captured StackTrace is the call
\* stack from the caller of the public entry point on, innermost first, cut
\* to at most depth frames, and holds no frame of the library.
C11_CaptureAtCaller ==
    \A s \in Captured :
        /\ s.frames = CallerStack
        /\ \A i \in 1..Len(s.frames) : s.frames[i].lvl # 0

\* The capture points that are entry points themselves do capture at their
\* caller; the capture of the fallback rule is the one that does not.
C11_EntryPointsAtCaller ==
    last.op # "Remap" => C11_CaptureAtCaller

\* The fallback rule captured a stack whose innermost frame is Remap.
C11_RemapFrameCaptured ==
    /\ last.op = "Remap"
    /\ \E s \in Captured : s.frames # <<>> /\ s.frames[1] = F("Remap")

\* ------------------------------------------------------------ renderings

StartsWith(s, p) == Len(s) >= Len(p) /\ SubSeq(s, 1, Len(p)) = p

\* A frame in detail: function name, newline, tab, file path, colon, line,
\* newline.
RenderFrame(f) ==
    FuncInfo(f).name \o <<"\n", "\t">> \o FuncInfo(f).file \o <<":">>
        \o <<ToString(FuncInfo(f).line)>> \o <<"\n">>

RECURSIVE RenderFrames(_)
RenderFrames(st) ==
    IF st = <<>> THEN <<>> ELSE RenderFrame(Head(st)) \o RenderFrames(Tail(st))

\* The frames of the chain's deepest stack-bearing error, none without one.
DeepestFrames(h, e) ==
    IF Bearers(h, e) = {} THEN <<>>
    ELSE LET i == CHOOSE k \in Bearers(h, e) : \A j \in Bearers(h, e) : k >= j
         IN  h[ChainOf(h, e)[i]].stack.frames

\* No error of the caller's own types with an Unwrap method is in the chain.
OwnChain(h, e) ==
    \A i \in 1..Len(ChainOf(h, e)) : h[ChainOf(h, e)[i]].kind # "wrapper"

StackOps == {"New", "Errorf", "Wrap", "Wrapf"}

C12_HiddenStack ==
    /\ last.op = "Format"
    /\ last.by = "Wrap"
    /\ last.verb = "v"
    /\ last.plus
    /\ heap[last.base].kind = "wrapper"
    /\ last.out = heap[last.err].msg \o Sep \o heap[last.base].msg

QuoteOps == {"New", "Errorf", "WithStack", "WithMessage", "Wrap"}

\* C13: %q is the same function of Error() for the three variants: for every
\* error built by New, Errorf, WithStack, WithMessage or Wrap it is the
\* Go-quoted, escaped form of Error(), whichever variant is outermost and
\* also when a message holds a double quote or a backslash.
C13_QuotedRendering ==
    (last.op = "Format" /\ last.verb = "q" /\ last.by \in QuoteOps)
    => last.out = Quote(ErrorOf(heap, last.err))

\* The variants whose Format quotes through %q do render the quoted form.
C13_QuotedUnlessWithMessage ==
    (/\ last.op = "Format"
     /\ last.verb = "q"
     /\ last.by \in QuoteOps
     /\ heap[last.err].kind # "withMessage")
    => last.out = Quote(ErrorOf(heap, last.err))

\* %q of WithMessage(io.EOF, m), m holding a double quote and a backslash,
\* is the text of Error() between quotes, nothing escaped.
C13_UnescapedQuote ==
    /\ last.op = "Format"
    /\ last.verb = "q"
    /\ last.by = "WithMessage"
    /\ last.base = ErrEOF
    /\ heap[last.err].msg = <<"\"", "\\">>
    /\ last.out = <<"\"", "\"", "\\", ":", " ", "E", "O", "F", "\"">>
    /\ last.out # Quote(ErrorOf(heap, last.err))

====
